---- MODULE Spec2Model ----
(***************************************************************************)
(* Model of the GitHub stats-card generator scripts.                       *)
(*                                                                         *)
(* The repository holds five near-duplicate variants of one script:        *)
(*   gs1  src/.github/stats-generator/generate-stats.js lines 1-113        *)
(*   gs2  src/.github/stats-generator/generate-stats.js lines 115-398      *)
(*   p0a  src/unnamed/part_000 lines 1-92                                  *)
(*   p0b  src/unnamed/part_000 lines 94-449                                *)
(*   p1   src/unnamed/part_001                                             *)
(***************************************************************************)
EXTENDS Integers, Sequences, FiniteSets, TLC

\* ------------------------------------------------------------------ bounds
\* largest contributionCount the mocked API reports for one day
MaxCount == 2
\* number of consecutive calendar days, from WindowStart on, used as map keys
WindowDays == 5
\* number of calendar years from startYear through the current year
NumYears == 3
\* most contributionDays entries in one mocked year response
MaxDaysPerYear == 1
\* largest byte count of one language in a mocked languages response
MaxBytes == 2
\* most repositories in a mocked page that is shorter than per_page
MaxShort == 2
\* largest stargazers_count of a mocked repository
MaxStars == 1
\* most characters of a mocked login, display name or profile name
MaxText == 2
\* most languages in the language totals handed to the renderer
MaxLangs == 7

\* ------------------------------------------------------- calendar arithmetic
\* A Date value is modelled as whole days since EpochYear-01-01 UTC; a map key
\* "YYYY-MM-DD" is modelled as the triple <<YYYY, MM, DD>>.
startYear == 2008

EpochYear == startYear - 1

IsLeap(yr) == (yr % 4 = 0 /\ yr % 100 # 0) \/ yr % 400 = 0

DaysInYear(yr) == IF IsLeap(yr) THEN 366 ELSE 365

DaysInMonth(yr, m) ==
    IF m = 2 THEN (IF IsLeap(yr) THEN 29 ELSE 28)
    ELSE IF m \in {4, 6, 9, 11} THEN 30 ELSE 31

RECURSIVE DaysBeforeYear(_)
DaysBeforeYear(yr) ==
    IF yr <= EpochYear THEN 0 ELSE DaysInYear(yr - 1) + DaysBeforeYear(yr - 1)

RECURSIVE DaysBeforeMonth(_, _)
DaysBeforeMonth(yr, m) ==
    IF m <= 1 THEN 0 ELSE DaysInMonth(yr, m - 1) + DaysBeforeMonth(yr, m - 1)

\* new Date("YYYY-MM-DD"): the key parsed as UTC midnight
ParseDate(key) ==
    DaysBeforeYear(key[1]) + DaysBeforeMonth(key[1], key[2]) + (key[3] - 1)

RECURSIVE CivilFrom(_, _, _)
CivilFrom(yr, m, n) ==
    IF n >= DaysInYear(yr) /\ m = 1 THEN CivilFrom(yr + 1, 1, n - DaysInYear(yr))
    ELSE IF n >= DaysInMonth(yr, m) THEN CivilFrom(yr, m + 1, n - DaysInMonth(yr, m))
    ELSE <<yr, m, n + 1>>

\* d.toISOString().slice(0,10): the Date formatted back as a key
ToISODate(n) ==
    IF n < 0 THEN <<EpochYear - 1, 12, 32 + n>> ELSE CivilFrom(EpochYear, 1, n)

\* string comparison of two zero-padded "YYYY-MM-DD" keys
KeyLeq(a, b) ==
    \/ a[1] < b[1]
    \/ a[1] = b[1] /\ a[2] < b[2]
    \/ a[1] = b[1] /\ a[2] = b[2] /\ a[3] <= b[3]

\* Object.keys(dayMap).sort(): first and last element
FirstKey(keys) == CHOOSE k \in keys : \A j \in keys : KeyLeq(k, j)
LastKey(keys) == CHOOSE k \in keys : \A j \in keys : KeyLeq(j, k)

\* ------------------------------------------------------- streak calculator
\* have = new Set(dates.filter(d => (dayMap[d] || 0) > 0))
HaveAll(dm) == DOMAIN dm

Have(dm) == {d \in DOMAIN dm : dm[d] > 0}

\* the check after the forward loop: if (cur > longest) longest = cur
FinalCheckSkipped(cur, longest) == longest

FinalCheck(cur, longest) == IF cur > longest THEN cur ELSE longest

\* the loop condition of the forward loop: d <= maxDate
InRangeExclusive(d, maxDate) == d < maxDate

InRange(d, maxDate) == d <= maxDate

\* the forward loop: while (d <= maxDate) { ... d.setUTCDate(d.getUTCDate()+1) }
RECURSIVE LongestLoop(_, _, _, _, _)
LongestLoop(d, maxDate, have, cur, longest) ==
    IF ~InRange(d, maxDate) THEN FinalCheck(cur, longest)
    ELSE IF ToISODate(d) \in have
         THEN LongestLoop(d + 1, maxDate, have, cur + 1, longest)
         ELSE LongestLoop(d + 1, maxDate, have, 0,
                          IF cur > longest THEN cur ELSE longest)

\* the backward loop: while (true) { if (have.has(key)) {current++; cd--} else break }
RECURSIVE CurrentLoop(_, _, _)
CurrentLoop(cd, have, current) ==
    IF ToISODate(cd) \in have
    THEN CurrentLoop(cd - 1, have, current + 1)
    ELSE current

\* Object.values(dayMap).reduce((a,b)=>a+(b||0),0)
SumValuesCountingDays(dm, keys) == Cardinality({k \in keys : dm[k] > 0})

RECURSIVE SumValues(_, _)
SumValues(dm, keys) ==
    IF keys = {} THEN 0
    ELSE LET k == CHOOSE x \in keys : TRUE
         IN dm[k] + SumValues(dm, keys \ {k})

ZeroStreaks == [total |-> 0, currentStreak |-> 0, longestStreak |-> 0]

computeStreaksFromDayMap(dm) ==
    IF DOMAIN dm = {} THEN ZeroStreaks
    ELSE LET have == Have(dm)
             minDate == ParseDate(FirstKey(DOMAIN dm))
             maxDate == ParseDate(LastKey(DOMAIN dm))
         IN [total |-> SumValues(dm, DOMAIN dm),
             currentStreak |-> CurrentLoop(maxDate, have, 0),
             longestStreak |-> LongestLoop(minDate, maxDate, have, 0, 0)]

\* ------------------------------------------------------------- the variants
Variants == {"gs1", "gs2", "p0a", "p0b", "p1"}

\* const currentYear = new Date().getFullYear()
currentYear == startYear + NumYears - 1

\* gqlRequest / gqlCall test !res.ok as well as json.errors only in part_000
\* (second script) and part_001
ChecksStatus(v) == v \in {"p0b", "p1"}

\* the variants whose main body merges contributionDays into dayMap
HasDayMap(v) == v \in {"p0b", "p1"}

\* ---------------------------------------------------------------- the state
VARIABLES
    variant,      \* which of the five scripts runs
    token,        \* process.env.GH_TOKEN is set
    pc,           \* position of the script
    exitCode,     \* -1 while running, else the process exit code
    net,          \* the request awaited, or NoReq
    last,         \* phase and kind of the response handled last
    reqs,         \* number of requests issued so far, per phase
    y,            \* loop variable of the year loop
    totals,       \* the running totals
    dayMap,       \* date -> count
    okYears,      \* summaries of the years whose fetch succeeded, in order
    streaks,      \* result of the streak calculator
    page,         \* page number of the pagination loop
    repos,        \* out / got / repos: the repositories collected
    totalStars,   \* totalStars of fetchTotalStars
    shortSeen,    \* per pagination loop: a page shorter than per_page came back
    ri,           \* index of the repository the per-repository loop is at
    langTotals,   \* totals of computeLanguageTotals: language -> bytes
    okLangs,      \* the language objects of the fetches that succeeded, in order
    contributedToCount,  \* contributedToCount / count
    login,        \* process.env.GITHUB_LOGIN || "Mithun055", as characters
    displayName,  \* profile?.name || login
    files,        \* the files written
    svg           \* what the rendering step has computed

ctlVars == <<pc, exitCode, net, last, reqs>>

yearVars == <<y, totals, dayMap, okYears>>

pageVars == <<page, repos, totalStars, shortSeen>>

repoVars == <<ri, langTotals, okLangs, contributedToCount>>

outVars == <<login, displayName, files, svg>>

vars == <<variant, token, pc, exitCode, net, last, reqs, y, totals, dayMap,
          okYears, streaks, page, repos, totalStars, shortSeen, ri, langTotals,
          okLangs, contributedToCount, login, displayName, files, svg>>

NoReq == [phase |-> "none"]

NoLast == [phase |-> "none", kind |-> "none"]

NoStreaks == [total |-> -1, currentStreak |-> -1, longestStreak |-> -1]

EmptyMap == [k \in {} |-> 0]

Phases == {"years", "range", "stars", "contribPages", "ownedPages", "langs",
           "contribRepos", "profile"}

PagePhases == {"stars", "contribPages", "ownedPages"}

ZeroReqs == [p \in Phases |-> 0]

NoShort == [p \in PagePhases |-> FALSE]

ZeroSummary ==
    [total |-> 0, commits |-> 0, prs |-> 0, reviews |-> 0, issues |-> 0, priv |-> 0]

\* ---------------------------------------------------------- mocked GraphQL
\* kinds of outcome of one fetch + res.json():
\*   data      2xx, body {data: ...} without errors
\*   errors    body carries a GraphQL errors array
\*   httpfail  non-success status, JSON body without errors and without data
\*   badjson   body is not JSON: res.json() rejects
\*   neterr    fetch() itself rejects
FailKinds == {"errors", "httpfail", "badjson", "neterr"}

YearSummaries ==
    {[total |-> 3, commits |-> 1, prs |-> 1, reviews |-> 0, issues |-> 1, priv |-> 0],
     [total |-> 1, commits |-> 0, prs |-> 0, reviews |-> 1, issues |-> 0, priv |-> 1]}

RunDayKeys == {<<startYear, 12, 31>>, <<startYear + 1, 1, 1>>}

DayEntries == [date : RunDayKeys, count : 0..MaxCount]

DayLists == UNION {[1..n -> DayEntries] : n \in 0..MaxDaysPerYear}

FailResps == {[kind |-> k, summary |-> ZeroSummary, days |-> <<>>] : k \in FailKinds}

RichYearResps ==
    [kind : {"data"}, summary : YearSummaries, days : DayLists] \cup FailResps

LeanYearResps ==
    {[kind |-> "data",
      summary |-> [total |-> 3, commits |-> 1, prs |-> 1, reviews |-> 0,
                   issues |-> 1, priv |-> 0],
      days |-> <<[date |-> <<startYear, 12, 31>>, count |-> 1]>>]} \cup FailResps

\* --------------------------------------------------------- year-by-year sum
\* total += r.total; commits += r.commits; ... priv += r.priv
AddSummaryMixed(t, s) ==
    [total |-> t.total + s.total, commits |-> t.commits + s.commits,
     prs |-> t.prs + s.prs, reviews |-> t.reviews + s.prs,
     issues |-> t.issues + s.issues, priv |-> t.priv + s.priv]

AddSummary(t, s) ==
    [total |-> t.total + s.total, commits |-> t.commits + s.commits,
     prs |-> t.prs + s.prs, reviews |-> t.reviews + s.reviews,
     issues |-> t.issues + s.issues, priv |-> t.priv + s.priv]

\* dayMap[d.date] = (dayMap[d.date] || 0) + (d.contributionCount || 0)
MergeDayOverwrite(dm, e) ==
    IF e.date \in DOMAIN dm
    THEN [dm EXCEPT ![e.date] = e.count]
    ELSE dm @@ (e.date :> e.count)

MergeDay(dm, e) ==
    IF e.date \in DOMAIN dm
    THEN [dm EXCEPT ![e.date] = @ + e.count]
    ELSE dm @@ (e.date :> e.count)

\* for (const w of weeks) for (const d of w.contributionDays || []) ...
RECURSIVE MergeDays(_, _)
MergeDays(dm, days) ==
    IF days = <<>> THEN dm ELSE MergeDays(MergeDay(dm, Head(days)), Tail(days))

\* const from = `${y}-01-01T00:00:00Z`; const to = `${y}-12-31T23:59:59Z`;
\* the two instants by their calendar day
YearWindow(yr) == [from |-> <<yr, 1, 1>>, to |-> <<yr, 12, 31>>]

\* const from = "2008-01-01T00:00:00Z"; const to = new Date().toISOString();
\* in the first script of part_000: now is some day of the current year
RangeWindows ==
    {[from |-> <<startYear, 1, 1>>, to |-> <<currentYear, m, 1>>] : m \in {1, 12}}

\* what the year loop does with one response: "add", "skip" or "throw"
\*   fetch or res.json() rejecting propagates out of the helper;
\*   json.errors (and, where tested, !res.ok) yields the error shape;
\*   otherwise the caller dereferences r.data.user, which throws a TypeError
\*   when the body carries no data
YearOutcome(v, kind) ==
    IF kind \in {"neterr", "badjson"} THEN "throw"
    ELSE IF kind = "errors" THEN "skip"
    ELSE IF kind = "httpfail" THEN (IF ChecksStatus(v) THEN "skip" ELSE "throw")
    ELSE "add"

\* the phase that follows the year loop
AfterYears(v) ==
    IF v = "gs1" THEN "render" ELSE IF v = "gs2" THEN "stars" ELSE "streaks"

\* ------------------------------------------------------ repository listing
\* const per = 100 / per_page = 100
per == 100

\* fetchOwnedRepos(200) / fetchContributedToCount(login, 200)
limit == 200

\* if (page > 50) break; in fetchTotalStars, if (page > 10) break; elsewhere
Ceiling(phase) == IF phase = "stars" THEN 50 ELSE 10

CeilingHitLate(pg, ceiling) == pg > ceiling + 1

CeilingHit(pg, ceiling) == pg > ceiling

\* if (arr.length < per) break;
ShortPageIgnored(len) == FALSE

ShortPage(len) == len < per

\* while (true) in fetchTotalStars, while (out.length < limit) elsewhere
LoopCond(phase, out) == phase = "stars" \/ Len(out) < limit

\* out.slice(0, limit)
Slice(out, n) == SubSeq(out, 1, IF Len(out) < n THEN Len(out) ELSE n)

\* for (const r of repos) totalStars += (r.stargazers_count || 0), summed
\* value by value
RECURSIVE SumStarsOver(_, _)
SumStarsOver(list, vals) ==
    IF vals = {} THEN 0
    ELSE LET v == CHOOSE x \in vals : TRUE
         IN v * Cardinality({i \in DOMAIN list : list[i].stars = v})
              + SumStarsOver(list, vals \ {v})

SumStars(list) == SumStarsOver(list, {list[i].stars : i \in DOMAIN list})

\* mocked repository entries: languages_url present or not, stargazers_count
RepoKinds == [languages_url : BOOLEAN, stars : 0..MaxStars]

FullRepo == [languages_url |-> TRUE, stars |-> 1]

BareRepo == [languages_url |-> FALSE, stars |-> 0]

ShortLists == UNION {[1..n -> RepoKinds] : n \in 0..MaxShort}

\* kinds of outcome of one page fetch + res.json():
\*   ok        2xx with an array body
\*   notarray  2xx with a JSON body that is not an array
\*   httpfail  non-success status
\*   badjson   body is not JSON: res.json() rejects
\*   neterr    fetch() itself rejects
PageFailResps ==
    {[kind |-> k, list |-> <<>>] : k \in {"notarray", "httpfail", "badjson", "neterr"}}

\* short pages that differ in length and in whether a repository has a
\* languages_url and stars
PageShortLists == UNION {[1..n -> {FullRepo, BareRepo}] : n \in 0..MaxShort}

RichPageResps ==
    [kind : {"ok"}, list : PageShortLists]
        \cup {[kind |-> "ok", list |-> [i \in 1..n |-> FullRepo]] : n \in {per, per + 1}}
        \cup PageFailResps

LeanPageResps ==
    {[kind |-> "ok", list |-> l] : l \in {<<>>, <<FullRepo>>, <<FullRepo, BareRepo>>}}
        \cup PageFailResps

\* index of the first repository from i on that has a languages_url
FirstWithUrl(rs, i) ==
    LET c == {j \in i..Len(rs) : rs[j].languages_url}
    IN IF c = {} THEN Len(rs) + 1 ELSE CHOOSE j \in c : \A k \in c : j <= k

\* the phases that follow the repository listing
ContribOrProfile(rs) == IF Len(rs) > 0 THEN "contribRepos" ELSE "profile"

AfterLangs(v, rs) == IF v = "p1" THEN "render" ELSE ContribOrProfile(rs)

LangsOrAfter(v, rs) ==
    IF FirstWithUrl(rs, 1) <= Len(rs) THEN "langs" ELSE AfterLangs(v, rs)

\* ----------------------------------------------------- per-repository data
\* A text value is modelled as the sequence of its characters.
\* const login = process.env.GITHUB_LOGIN || "Mithun055": the fallback
DefaultLogin == <<"M", "i", "t", "h", "u", "n", "0", "5", "5">>

Langs == {<<"G", "o">>, <<"R", "u", "s", "t">>}

\* bodies of a languages_url response: language -> bytes
LangObjs == UNION {[ls -> 0..MaxBytes] : ls \in SUBSET Langs}

\* kinds of outcome of one languages fetch + res.json():
\*   ok / httpfail / badjson / neterr, as for a page
LangFailResps ==
    {[kind |-> k, obj |-> EmptyMap] : k \in {"httpfail", "badjson", "neterr"}}

RichLangResps == [kind : {"ok"}, obj : LangObjs] \cup LangFailResps

LeanLangResps ==
    {[kind |-> "ok", obj |-> [l \in {<<"G", "o">>} |-> MaxBytes]]} \cup LangFailResps

\* whether an outcome of the languages fetch leaves computeLanguageTotals as an
\* exception: the try / catch around the fetch swallows every one of them
LangFatalUncaught(kind) == kind \in {"badjson", "neterr"}

LangFatal(kind) == FALSE

\* totals[lang] = (totals[lang] || 0) + (bytes || 0), for every entry of obj
AddLangs(t, obj) ==
    [l \in DOMAIN t \cup DOMAIN obj |->
        (IF l \in DOMAIN t THEN t[l] ELSE 0) + (IF l \in DOMAIN obj THEN obj[l] ELSE 0)]

\* outcomes of the per-repository GraphQL call: the kinds of a year response,
\* with history.totalCount in count
RepoResps ==
    {[kind |-> "data", count |-> c] : c \in 0..1}
        \cup {[kind |-> k, count |-> 0] : k \in FailKinds}

\* outcomes of the profile fetch + res.json(); name is "" when the body has none
ProfileResps ==
    {[kind |-> "ok", name |-> n] : n \in {<<>>, <<"L", "&", "M">>}}
        \cup {[kind |-> k, name |-> <<>>] : k \in {"httpfail", "badjson", "neterr"}}

\* ------------------------------------------------------------ text escaping
\* characters a mocked text value is made of
Chars == {"x", "&", "<", ">", "\""}

Texts == UNION {[1..n -> Chars] : n \in 0..MaxText}

Amp == <<"&", "a", "m", "p", ";">>

Lt == <<"&", "l", "t", ";">>

Gt == <<"&", "g", "t", ";">>

\* String(s).replaceAll(c, r)
RECURSIVE replaceAll(_, _, _)
replaceAll(s, c, r) ==
    IF s = <<>> THEN <<>>
    ELSE (IF Head(s) = c THEN r ELSE <<Head(s)>>) \o replaceAll(Tail(s), c, r)

\* String(s).replaceAll("&","&amp;").replaceAll("<","&lt;").replaceAll(">","&gt;")
esc(s) == replaceAll(replaceAll(replaceAll(s, "&", Amp), "<", Lt), ">", Gt)

\* the scripts whose template interpolates ${login} as it is
InterpolatesRaw(v) == v \in {"gs1", "p0a"}

\* the name as the template places it in the document: ${login},
\* ${esc(login)} or ${esc(displayName)}
NameFragment(v, lg, dn) ==
    IF InterpolatesRaw(v) THEN lg
    ELSE IF v = "p1" THEN esc(lg)
    ELSE esc(dn)

\* ---------------------------------------------------------- language shares
\* the scripts that draw the stacked language bar
HasLangBar(v) == v \in {"p0b", "p1"}

\* Object.entries(langTotals): the keys in insertion order, which the model
\* of the totals as a function does not keep; one fixed order stands for it
RECURSIVE Entries(_, _)
Entries(lt, keys) ==
    IF keys = {} THEN <<>>
    ELSE LET k == CHOOSE x \in keys : TRUE
         IN <<[lang |-> k, bytes |-> lt[k]]>> \o Entries(lt, keys \ {k})

Remove(es, i) == SubSeq(es, 1, i - 1) \o SubSeq(es, i + 1, Len(es))

\* .sort((a,b)=>b[1]-a[1]): descending by bytes, stable
RECURSIVE SortByBytes(_)
SortByBytes(es) ==
    IF es = <<>> THEN <<>>
    ELSE LET i == CHOOSE j \in DOMAIN es :
                     /\ \A k \in DOMAIN es : es[k].bytes <= es[j].bytes
                     /\ \A k \in 1..(j - 1) : es[k].bytes < es[j].bytes
         IN <<es[i]>> \o SortByBytes(Remove(es, i))

langEntries(lt) == SortByBytes(Entries(lt, DOMAIN lt))

RECURSIVE SumBytes(_)
SumBytes(es) == IF es = <<>> THEN 0 ELSE Head(es).bytes + SumBytes(Tail(es))

\* langEntries.slice(0,6)
FirstSix(es) == SubSeq(es, 1, IF Len(es) < 6 THEN Len(es) ELSE 6)

\* langEntries.reduce((s,[_l,b])=>s+b,0): over all the entries
langSumOfRendered(es) == SumBytes(FirstSix(es))

langSum(es) == SumBytes(es)

\* pct: langSum ? (bytes/langSum)*100 : 0, kept as the exact fraction num/den
Pct(bytes, sum) ==
    IF sum # 0 THEN [num |-> bytes * 100, den |-> sum] ELSE [num |-> 0, den |-> 1]

\* Math.round(p/q) for q > 0: the nearest integer, a half rounded up
Round(p, q) == (2 * p + q) \div (2 * q)

\* t.pct.toFixed(1), in tenths of a percent
toFixed1(pct) == Round(pct.num * 10, pct.den)

\* langEntries.slice(0,6).map(([lang,bytes]) => ({lang, bytes, pct}))
topLangs(es, sum) ==
    [i \in DOMAIN FirstSix(es) |->
        [lang |-> es[i].lang, bytes |-> es[i].bytes, pct |-> Pct(es[i].bytes, sum)]]

\* ------------------------------------------------------------------ geometry
Max2(a, b) == IF a > b THEN a ELSE b

Min2(a, b) == IF a < b THEN a ELSE b

\* langBarW = width - langBarX - 28 with width 980, langBarX = padding + 28;
\* barW = cardW - 40 with cardW = width - 40, width 920
langBarW(v) == IF v = "p0b" THEN 980 - (20 + 28) - 28 ELSE (920 - 40) - 40

\* w = Math.max(1, Math.round((t.pct/100)*langBarW)) in part_000,
\* w = Math.round((t.pct/100) * barW) in part_001
SegmentWidth(v, pct) ==
    LET w == Round(pct.num * langBarW(v), pct.den * 100)
    IN IF v = "p0b" THEN Max2(1, w) ELSE w

\* the scripts that draw a progress ring
HasRing(v) == v \in {"gs2", "p0b", "p1"}

\* const goal = 2000
goal == 2000

\* radius / ringRadius
radius(v) == IF v = "p1" THEN 44 ELSE 48

\* Math.min(100, ...)
ClampPercentNot(p) == p

ClampPercent(p) == Min2(100, p)

\* ringMax = Math.max(currentStreak, longestStreak, 1)
ringMax(c, l) == Max2(Max2(c, l), 1)

\* percent = Math.min(100, Math.round((total / goal) * 100)) in
\* generate-stats.js; ringPercent = Math.round((currentStreak / ringMax) * 100)
ringPercent(v, total, st) ==
    IF v = "gs2" THEN ClampPercent(Round(total * 100, goal))
    ELSE Round(st.currentStreak * 100, ringMax(st.currentStreak, st.longestStreak))

\* the two numbers of stroke-dasharray, in units of pi/100:
\*   "${ringDash} ${ringCirc - ringDash}" in part_000,
\*   "${(2*Math.PI*radius)*(percent/100)} ${(2*Math.PI*radius)}" elsewhere
Ring(v, total, st) ==
    LET pr == ringPercent(v, total, st)
        dash == 2 * radius(v) * pr
        circ == 2 * radius(v) * 100
    IN [percent |-> pr, dash |-> dash, rest |-> (IF v = "p0b" THEN circ - dash ELSE circ)]

\* ----------------------------------------------------------- the svg string
NoSvg ==
    [done |-> FALSE, built |-> FALSE, texts |-> {}, aria |-> {}, ring |-> <<>>,
     langSum |-> 0, top |-> <<>>, widths |-> <<>>]

\* what the rendering code computes, up to and including the svg template:
\*   done     the rendering code has run
\*   built    the template string was completed
\*   texts    the interpolated text values, as they stand in the document
\*   aria     the value placed in the aria-label attribute, if there is one
\*   ring     the ring percentage and dash lengths, if a ring is drawn
\*   langSum, top, widths   the language shares and the bar segments
\* The template of part_001 reads leftColWidth, which that script never
\* declares, so completing the string throws a ReferenceError there.
RenderSvg(v, lg, dn, tot, st, lt) ==
    LET es == IF HasLangBar(v) THEN langEntries(lt) ELSE <<>>
        sum == langSum(es)
        top == topLangs(es, sum)
        name == NameFragment(v, lg, dn)
    IN [done |-> TRUE,
        built |-> v # "p1",
        texts |-> {name} \cup {esc(top[i].lang) : i \in DOMAIN top},
        aria |-> (IF InterpolatesRaw(v) THEN {} ELSE {name}),
        ring |-> (IF HasRing(v) THEN <<Ring(v, tot.total, st)>> ELSE <<>>),
        langSum |-> sum,
        top |-> top,
        widths |-> [i \in DOMAIN top |-> SegmentWidth(v, top[i].pct)]]

\* ------------------------------------------------------------------ actions
Init ==
    /\ variant \in Variants
    /\ token \in BOOLEAN
    /\ pc = "start"
    /\ exitCode = -1
    /\ net = NoReq
    /\ last = NoLast
    /\ reqs = ZeroReqs
    /\ y = startYear
    /\ totals = ZeroSummary
    /\ dayMap = EmptyMap
    /\ okYears = <<>>
    /\ streaks = NoStreaks
    /\ page = 1
    /\ repos = <<>>
    /\ totalStars = 0
    /\ shortSeen = NoShort
    /\ ri = 1
    /\ langTotals = EmptyMap
    /\ okLangs = <<>>
    /\ contributedToCount = 0
    /\ login = DefaultLogin
    /\ displayName = login
    /\ files = {}
    /\ svg = NoSvg

\* the exit code of a run in which an exception reaches the top level:
\* catch (err) { console.error(...); process.exit(1); } around the body of main.
\* The first script of generate-stats.js has no catch: the promise of its async
\* main is rejected and nothing handles it, which ends a Node.js process with
\* code 1 (the default mode of unhandled rejections from Node.js 15 on, the
\* oldest release that has the replaceAll the second script of that file calls).
ExitOnThrowZero(v) == 0

ExitOnThrow(v) == 1

\* the test of if (!token)
TokenMissingNever(tok) == FALSE

TokenMissing(tok) == ~tok

\* if (!token) { console.error(...); process.exit(1); }
Start ==
    /\ pc = "start"
    /\ IF TokenMissing(token)
       THEN /\ pc' = "exit"
            /\ exitCode' = 1
       ELSE /\ pc' = (IF variant = "p0a" THEN "range" ELSE "years")
            /\ UNCHANGED exitCode
    /\ UNCHANGED <<variant, token, net, last, reqs, streaks>>
    /\ UNCHANGED <<yearVars, pageVars, repoVars, outVars>>

\* every fetch is awaited (const res = await fetch(...)): the script reaches
\* its next fetch only when no response is outstanding
AwaitedNot(n) == TRUE

Awaited(n) == n = NoReq

\* await fetch(...): the request of the current phase goes out
IssueRequest(phases) ==
    /\ pc \in phases
    /\ Awaited(net)
    /\ net' = [phase |-> pc]
    /\ reqs' = [reqs EXCEPT ![pc] = @ + 1]
    /\ UNCHANGED <<variant, token, pc, exitCode, last, streaks>>
    /\ UNCHANGED <<yearVars, pageVars, repoVars, outVars>>

\* one iteration of the year loop, from the response on
YearResponse(resp) ==
    /\ pc = "years"
    /\ net = [phase |-> "years"]
    /\ net' = NoReq
    /\ last' = [phase |-> "years", kind |-> resp.kind]
    /\ LET o == YearOutcome(variant, resp.kind) IN
        /\ IF o = "throw"
           THEN /\ pc' = "exit"
                /\ exitCode' = ExitOnThrow(variant)
                /\ UNCHANGED y
           ELSE /\ y' = y + 1
                /\ pc' = (IF y + 1 <= currentYear THEN "years" ELSE AfterYears(variant))
                /\ UNCHANGED exitCode
        /\ IF o = "add"
           THEN /\ totals' = AddSummary(totals, resp.summary)
                /\ dayMap' = (IF HasDayMap(variant) THEN MergeDays(dayMap, resp.days)
                              ELSE dayMap)
           ELSE UNCHANGED <<totals, dayMap>>
    /\ okYears' = (IF resp.kind = "data" THEN Append(okYears, resp.summary)
                   ELSE okYears)
    /\ UNCHANGED <<variant, token, reqs, streaks, pageVars, repoVars, outVars>>

\* const { total, currentStreak, longestStreak } = computeStreaksFromDayMap(dayMap)
CallComputeStreaks ==
    /\ pc = "streaks"
    /\ streaks' = computeStreaksFromDayMap(dayMap)
    /\ pc' = "ownedPages"
    /\ UNCHANGED <<variant, token, exitCode, net, last, reqs>>
    /\ UNCHANGED <<yearVars, pageVars, repoVars, outVars>>

\* one iteration of a pagination loop (fetchTotalStars, the first loop of
\* fetchContributedToCount, fetchOwnedRepos), from the response on
PageResponse(resp) ==
    /\ pc \in PagePhases
    /\ net = [phase |-> pc]
    /\ net' = NoReq
    /\ last' = [phase |-> pc, kind |-> resp.kind]
    /\ LET len == Len(resp.list)
           thrown == resp.kind \in {"neterr", "badjson"}
           broke == resp.kind \in {"httpfail", "notarray"} \/ len = 0
           out == IF broke \/ pc = "stars" THEN repos ELSE repos \o resp.list
           stars == IF broke \/ pc # "stars" THEN totalStars
                    ELSE totalStars + SumStars(resp.list)
           nextPage == IF broke \/ ShortPage(len) THEN page ELSE page + 1
           more == /\ ~broke
                   /\ ~ShortPage(len)
                   /\ ~CeilingHit(page + 1, Ceiling(pc))
                   /\ LoopCond(pc, out)
           result == Slice(out, limit)
       IN IF thrown
          THEN /\ pc' = "exit"
               /\ exitCode' = ExitOnThrow(variant)
               /\ UNCHANGED <<page, repos, totalStars, shortSeen>>
          ELSE /\ UNCHANGED exitCode
               /\ totalStars' = stars
               /\ shortSeen' = [shortSeen EXCEPT
                                  ![pc] = @ \/ (resp.kind = "ok" /\ len < per)]
               /\ IF more
                  THEN /\ pc' = pc
                       /\ page' = nextPage
                       /\ repos' = out
                  ELSE IF pc = "stars"
                  THEN /\ pc' = "contribPages"
                       /\ page' = 1
                       /\ repos' = <<>>
                  ELSE /\ pc' = (IF pc = "contribPages" THEN ContribOrProfile(result)
                                 ELSE LangsOrAfter(variant, result))
                       /\ page' = nextPage
                       /\ repos' = result
    /\ ri' = (IF pc' = "langs" THEN FirstWithUrl(repos', 1) ELSE 1)
    /\ UNCHANGED <<variant, token, reqs, streaks, yearVars>>
    /\ UNCHANGED <<langTotals, okLangs, contributedToCount, outVars>>

\* the single range query of the first script of part_000, from the response on
RangeResponse(resp) ==
    /\ pc = "range"
    /\ net = [phase |-> "range"]
    /\ net' = NoReq
    /\ last' = [phase |-> "range", kind |-> resp.kind]
    /\ IF resp.kind = "data"
       THEN /\ totals' = resp.summary
            /\ pc' = "render"
            /\ UNCHANGED exitCode
       ELSE /\ pc' = "exit"
            /\ exitCode' = ExitOnThrow(variant)
            /\ UNCHANGED totals
    /\ UNCHANGED <<variant, token, reqs, streaks, y, dayMap, okYears>>
    /\ UNCHANGED <<pageVars, repoVars, outVars>>

\* one iteration of the loop of computeLanguageTotals, from the response on
LangResponse(resp) ==
    /\ pc = "langs"
    /\ net = [phase |-> "langs"]
    /\ net' = NoReq
    /\ last' = [phase |-> "langs", kind |-> resp.kind]
    /\ okLangs' = (IF resp.kind = "ok" THEN Append(okLangs, resp.obj) ELSE okLangs)
    /\ IF LangFatal(resp.kind)
       THEN /\ pc' = "exit"
            /\ exitCode' = ExitOnThrow(variant)
            /\ UNCHANGED <<ri, langTotals>>
       ELSE /\ langTotals' = (IF resp.kind = "ok" THEN AddLangs(langTotals, resp.obj)
                              ELSE langTotals)
            /\ LET nxt == FirstWithUrl(repos, ri + 1) IN
                 IF nxt <= Len(repos)
                 THEN /\ ri' = nxt
                      /\ pc' = "langs"
                 ELSE /\ ri' = 1
                      /\ pc' = AfterLangs(variant, repos)
            /\ UNCHANGED exitCode
    /\ UNCHANGED <<variant, token, reqs, streaks, contributedToCount>>
    /\ UNCHANGED <<yearVars, pageVars, outVars>>

\* one iteration of the contributed-to loop, from the response on; every
\* failure is swallowed by the try / catch inside the loop
RepoResponse(resp) ==
    /\ pc = "contribRepos"
    /\ net = [phase |-> "contribRepos"]
    /\ net' = NoReq
    /\ last' = [phase |-> "contribRepos", kind |-> resp.kind]
    /\ contributedToCount' =
          (IF resp.kind = "data" /\ resp.count > 0 THEN contributedToCount + 1
           ELSE contributedToCount)
    /\ IF ri + 1 <= Len(repos)
       THEN /\ ri' = ri + 1
            /\ pc' = "contribRepos"
       ELSE /\ ri' = 1
            /\ pc' = "profile"
    /\ UNCHANGED <<variant, token, exitCode, reqs, streaks, langTotals, okLangs>>
    /\ UNCHANGED <<yearVars, pageVars, outVars>>

\* const profile = await profileRes.json(); displayName = profile?.name || login
ProfileResponse(resp) ==
    /\ pc = "profile"
    /\ net = [phase |-> "profile"]
    /\ net' = NoReq
    /\ last' = [phase |-> "profile", kind |-> resp.kind]
    /\ IF resp.kind \in {"badjson", "neterr"}
       THEN /\ pc' = "exit"
            /\ exitCode' = ExitOnThrow(variant)
            /\ UNCHANGED displayName
       ELSE /\ pc' = "render"
            /\ displayName' = (IF resp.name = <<>> THEN login ELSE resp.name)
            /\ UNCHANGED exitCode
    /\ UNCHANGED <<variant, token, reqs, streaks, login, files, svg>>
    /\ UNCHANGED <<yearVars, pageVars, repoVars>>

\* the layout numbers, the language rects and labels, and the svg template
Render ==
    /\ pc = "render"
    /\ svg' = RenderSvg(variant, login, displayName, totals, streaks, langTotals)
    /\ IF svg'.built
       THEN /\ pc' = "write"
            /\ UNCHANGED exitCode
       ELSE /\ pc' = "exit"
            /\ exitCode' = ExitOnThrow(variant)
    /\ UNCHANGED <<variant, token, net, last, reqs, streaks>>
    /\ UNCHANGED <<yearVars, pageVars, repoVars, login, displayName, files>>

\* fs.mkdirSync(outDir, ...); fs.writeFileSync(stablePath, svg)
WriteStable(ok) ==
    /\ pc = "write"
    /\ IF ok
       THEN /\ files' = files \cup {"stats.svg"}
            /\ IF variant \in {"gs1", "p0a"}
               THEN /\ pc' = "exit"
                    /\ exitCode' = 0
               ELSE /\ pc' = "writeCb"
                    /\ UNCHANGED exitCode
       ELSE /\ pc' = "exit"
            /\ exitCode' = ExitOnThrow(variant)
            /\ UNCHANGED files
    /\ UNCHANGED <<variant, token, net, last, reqs, streaks>>
    /\ UNCHANGED <<login, displayName, svg>>
    /\ UNCHANGED <<yearVars, pageVars, repoVars>>

\* fs.writeFileSync(cb, svg), then process.exit(0) or the end of the script
WriteCacheBusted(ok) ==
    /\ pc = "writeCb"
    /\ pc' = "exit"
    /\ IF ok
       THEN /\ files' = files \cup {"stats-<now>.svg"}
            /\ exitCode' = 0
       ELSE /\ exitCode' = ExitOnThrow(variant)
            /\ UNCHANGED files
    /\ UNCHANGED <<variant, token, net, last, reqs, streaks>>
    /\ UNCHANGED <<login, displayName, svg>>
    /\ UNCHANGED <<yearVars, pageVars, repoVars>>

\* ------------------------------------------------------------ the whole run
Next ==
    \/ Start
    \/ IssueRequest(Phases)
    \/ \E resp \in LeanYearResps : YearResponse(resp)
    \/ \E resp \in LeanYearResps : RangeResponse(resp)
    \/ CallComputeStreaks
    \/ \E resp \in LeanPageResps : PageResponse(resp)
    \/ \E resp \in LeanLangResps : LangResponse(resp)
    \/ \E resp \in RepoResps : RepoResponse(resp)
    \/ \E resp \in ProfileResps : ProfileResponse(resp)
    \/ Render
    \/ \E ok \in BOOLEAN : WriteStable(ok)
    \/ \E ok \in BOOLEAN : WriteCacheBusted(ok)

Spec == Init /\ [][Next]_vars

\* ------------------------------------------------- the year loop on its own
NextYears ==
    \/ Start
    \/ IssueRequest({"years"})
    \/ \E resp \in RichYearResps : YearResponse(resp)

SpecYears == Init /\ [][NextYears]_vars

\* --------------------------------------------- streak calculator, in isolation
\* keys the mocked calendar may contain: a window of consecutive days across
\* the leap day and the month boundary, and one day a week before it
WindowStart == ParseDate(<<startYear, 2, 27>>)

DayKeys ==
    {ToISODate(WindowStart + i) : i \in 0..(WindowDays - 1)}
        \cup {<<startYear, 2, 20>>}

DayMaps == UNION {[ks -> 0..MaxCount] : ks \in SUBSET DayKeys}

\* the state after a year loop in which the first year returned the day list
\* and every later year an error payload
AfterYearLoop(v) ==
    /\ variant = v
    /\ token = TRUE
    /\ pc = AfterYears(v)
    /\ exitCode = -1
    /\ net = NoReq
    /\ last = [phase |-> "years", kind |-> "errors"]
    /\ reqs = [ZeroReqs EXCEPT !["years"] = NumYears]
    /\ y = currentYear + 1
    /\ totals = ZeroSummary
    /\ okYears = <<ZeroSummary>>
    /\ page = 1
    /\ repos = <<>>
    /\ totalStars = 0
    /\ shortSeen = NoShort
    /\ ri = 1
    /\ langTotals = EmptyMap
    /\ okLangs = <<>>
    /\ contributedToCount = 0
    /\ login = DefaultLogin
    /\ displayName = login
    /\ files = {}
    /\ svg = NoSvg

InitStreak ==
    /\ \E v \in {"p0b", "p1"} : AfterYearLoop(v)
    /\ dayMap \in DayMaps
    /\ streaks = NoStreaks

NextStreak == CallComputeStreaks

SpecStreak == InitStreak /\ [][NextStreak]_vars

\* ------------------------------------------- the pagination loops on their own
\* the state at the first pagination loop, after a year loop that collected
\* no day and the streak calculation over the empty map
InitPages ==
    /\ \E v \in {"gs2", "p0b", "p1"} : AfterYearLoop(v)
    /\ dayMap = EmptyMap
    /\ streaks = NoStreaks

NextPages ==
    \/ CallComputeStreaks
    \/ IssueRequest(PagePhases)
    \/ \E resp \in RichPageResps : PageResponse(resp)

SpecPages == InitPages /\ [][NextPages]_vars

\* ------------------------------------------ computeLanguageTotals on its own
\* the state after fetchOwnedRepos returned one short page
InitLangs ==
    /\ \E v \in {"p0b", "p1"} : AfterYearLoop(v)
    /\ dayMap = EmptyMap
    /\ streaks = NoStreaks

NextLangs ==
    \/ CallComputeStreaks
    \/ IssueRequest({"ownedPages", "langs"})
    \/ \E resp \in [kind : {"ok"}, list : ShortLists] : PageResponse(resp)
    \/ \E resp \in RichLangResps : LangResponse(resp)

SpecLangs == InitLangs /\ [][NextLangs]_vars

\* ------------------------------------------ rendering and writing on their own
\* byte counts of the mocked language totals: none, one byte, a large repository
RenderBytes == {0, 1, 2000}

Digits == <<"1", "2", "3", "4", "5", "6", "7", "8", "9">>

\* names of the mocked languages
LangName(i) ==
    IF i = 1 THEN <<"C", "+", "+">>
    ELSE IF i = 2 THEN <<"R", "&", "D">>
    ELSE IF i = 3 THEN <<"<", "T", ">">>
    ELSE <<"L", Digits[i]>>

RenderLangTotals ==
    UNION {[{LangName(i) : i \in 1..n} -> RenderBytes] : n \in 0..MaxLangs}

\* process.env.GITHUB_LOGIN || "Mithun055": an empty value yields the fallback
Logins == (Texts \ {<<>>}) \cup {DefaultLogin}

\* totalContributions summed over the years, around the goal of the ring
RenderTotals == {[ZeroSummary EXCEPT !.total = t] : t \in {0, 9, 10, 1990, 2000, 5000}}

RenderDayMaps ==
    UNION {[ks -> 0..MaxCount] : ks \in SUBSET {ToISODate(WindowStart + i) : i \in 0..3}}

NoInput ==
    [login |-> DefaultLogin, displayName |-> DefaultLogin, totals |-> ZeroSummary,
     dayMap |-> EmptyMap, langTotals |-> EmptyMap]

\* the aggregates handed to the rendering code, one kind of input varied at a
\* time: the login, the profile name, the totals, the day map, the languages
RenderInputs(v) ==
    {[NoInput EXCEPT !.login = t, !.displayName = t] : t \in Logins}
      \cup (IF v \in {"gs2", "p0b"}
            THEN {[NoInput EXCEPT !.displayName = t] : t \in Texts \ {<<>>}}
            ELSE {})
      \cup {[NoInput EXCEPT !.totals = t] : t \in RenderTotals}
      \cup (IF HasDayMap(v)
            THEN {[NoInput EXCEPT !.dayMap = m] : m \in RenderDayMaps}
                   \cup {[NoInput EXCEPT !.langTotals = lt] : lt \in RenderLangTotals}
            ELSE {})

\* requests issued by the time the script renders, when every pagination loop
\* got one short page
ReqsAtRender(v) ==
    IF v = "p0a" THEN [ZeroReqs EXCEPT !["range"] = 1]
    ELSE IF v = "gs1" THEN [ZeroReqs EXCEPT !["years"] = NumYears]
    ELSE IF v = "gs2"
    THEN [ZeroReqs EXCEPT !["years"] = NumYears, !["stars"] = 1,
                          !["contribPages"] = 1, !["profile"] = 1]
    ELSE IF v = "p0b"
    THEN [ZeroReqs EXCEPT !["years"] = NumYears, !["ownedPages"] = 1, !["langs"] = 1,
                          !["contribRepos"] = 1, !["profile"] = 1]
    ELSE [ZeroReqs EXCEPT !["years"] = NumYears, !["ownedPages"] = 1, !["langs"] = 1]

\* the state in which the script starts to render: the first year answered
\* with the totals and the days and the later years with error payloads, the
\* one repository (none in generate-stats.js) with the language totals
AtRender(v, in) ==
    /\ variant = v
    /\ token = TRUE
    /\ pc = "render"
    /\ exitCode = -1
    /\ net = NoReq
    /\ last = (IF v = "p0a" THEN [phase |-> "range", kind |-> "data"]
               ELSE IF v = "gs1" THEN [phase |-> "years", kind |-> "errors"]
               ELSE IF v = "p1" THEN [phase |-> "langs", kind |-> "ok"]
               ELSE [phase |-> "profile", kind |-> "ok"])
    /\ reqs = ReqsAtRender(v)
    /\ y = (IF v = "p0a" THEN startYear ELSE currentYear + 1)
    /\ totals = in.totals
    /\ dayMap = in.dayMap
    /\ okYears = (IF v = "p0a" THEN <<>> ELSE <<in.totals>>)
    /\ streaks = (IF HasDayMap(v) THEN computeStreaksFromDayMap(in.dayMap)
                  ELSE NoStreaks)
    /\ page = 1
    /\ repos = (IF HasDayMap(v) THEN <<FullRepo>> ELSE <<>>)
    /\ totalStars = 0
    /\ shortSeen = (IF v = "gs2"
                    THEN [NoShort EXCEPT !["stars"] = TRUE, !["contribPages"] = TRUE]
                    ELSE IF HasDayMap(v) THEN [NoShort EXCEPT !["ownedPages"] = TRUE]
                    ELSE NoShort)
    /\ ri = 1
    /\ langTotals = in.langTotals
    /\ okLangs = (IF HasDayMap(v) THEN <<in.langTotals>> ELSE <<>>)
    /\ contributedToCount = 0
    /\ login = in.login
    /\ displayName = in.displayName
    /\ files = {}
    /\ svg = NoSvg

InitRender == \E v \in Variants : \E in \in RenderInputs(v) : AtRender(v, in)

NextRender ==
    \/ Render
    \/ \E ok \in BOOLEAN : WriteStable(ok)
    \/ \E ok \in BOOLEAN : WriteCacheBusted(ok)

SpecRender == InitRender /\ [][NextRender]_vars

\* ------------------------------- the run in which every call and write succeeds
NextHappy ==
    \/ Start
    \/ IssueRequest(Phases)
    \/ \E resp \in {r \in LeanYearResps : r.kind = "data"} : YearResponse(resp)
    \/ \E resp \in {r \in LeanYearResps : r.kind = "data"} : RangeResponse(resp)
    \/ CallComputeStreaks
    \/ \E resp \in {r \in LeanPageResps : r.kind = "ok"} : PageResponse(resp)
    \/ \E resp \in {r \in LeanLangResps : r.kind = "ok"} : LangResponse(resp)
    \/ \E resp \in {r \in RepoResps : r.kind = "data"} : RepoResponse(resp)
    \/ \E resp \in {r \in ProfileResps : r.kind = "ok"} : ProfileResponse(resp)
    \/ Render
    \/ WriteStable(TRUE)
    \/ WriteCacheBusted(TRUE)

SpecHappy == Init /\ [][NextHappy]_vars

\* ------------------------------------------------------------------ claims
\* a year response that is a non-success status or a GraphQL error payload
StatusOrPayloadFailure == {"errors", "httpfail"}

\* C1 (as stated): a year whose call returns a non-success HTTP status or a
\* GraphQL error payload fails for that year only; it never ends the run, so
\* the remaining years are still requested.
Claim_C1 ==
    (last.phase = "years" /\ last.kind \in StatusOrPayloadFailure)
        => (exitCode = -1 /\ (pc = "years" \/ reqs["years"] = NumYears))

RECURSIVE SumSummaries(_)
SumSummaries(ss) ==
    IF ss = <<>> THEN ZeroSummary
    ELSE [f \in DOMAIN ZeroSummary |-> Head(ss)[f] + SumSummaries(Tail(ss))[f]]

YearResponseStep == net = [phase |-> "years"] /\ net' = NoReq

C2Step ==
    /\ \A f \in DOMAIN ZeroSummary :
          /\ totals'[f] = SumSummaries(okYears')[f]
          /\ totals'[f] >= totals[f]
    /\ (YearResponseStep /\ last'.kind \in FailKinds)
          => (totals' = totals /\ dayMap' = dayMap)

\* C2: every running total equals the sum of its field over exactly the years
\* whose fetch succeeded, a failed year changes neither the totals nor the
\* dayMap, and no total ever decreases.
Thm_C2 == [][C2Step]_vars

Wit_C2 ==
    /\ pc \notin {"start", "years", "exit"}
    /\ Len(okYears) = 2
    /\ totals.reviews = 1
    /\ totals.prs = 1

\* the days, as day numbers, on which the map records a contribution
ContribDays(dm) == {ParseDate(k) : k \in {j \in DOMAIN dm : dm[j] > 0}}

MaxOf(S) == CHOOSE m \in S : \A n \in S : n <= m

\* length of the longest run of consecutive calendar days with a contribution
LongestRun(dm) ==
    LET days == ContribDays(dm)
    IN MaxOf({0} \cup {b - a + 1 : <<a, b>> \in
                 {r \in days \X days : r[1] <= r[2] /\ \A n \in r[1]..r[2] : n \in days}})

\* number of consecutive contributing days that end at the latest key
TrailingRun(dm) ==
    LET days == ContribDays(dm)
        latest == MaxOf({ParseDate(k) : k \in DOMAIN dm})
    IN CHOOSE n \in 0..Cardinality(days) :
          /\ \A i \in 0..(n - 1) : (latest - i) \in days
          /\ (latest - n) \notin days

RECURSIVE WeightedCount(_, _)
WeightedCount(dm, c) ==
    IF c <= 0 THEN 0
    ELSE c * Cardinality({k \in DOMAIN dm : dm[k] = c}) + WeightedCount(dm, c - 1)

\* sum of the values of the map, counted value by value
TotalOf(dm) ==
    IF DOMAIN dm = {} THEN 0 ELSE WeightedCount(dm, MaxOf({dm[k] : k \in DOMAIN dm}))

\* C3: the streak calculator never reports a current streak longer than the
\* longest streak.
Thm_C3 == pc = "ownedPages" => streaks.currentStreak <= streaks.longestStreak

Wit_C3 ==
    /\ pc = "ownedPages"
    /\ streaks.currentStreak = 3
    /\ streaks.longestStreak = 3

\* C4: for a non-empty map the longest streak is the length of the longest run
\* of consecutive calendar days with a count above zero, a run that ends on the
\* latest key included.
Thm_C4 ==
    (pc = "ownedPages" /\ DOMAIN dayMap # {})
        => streaks.longestStreak = LongestRun(dayMap)

Wit_C4 ==
    /\ pc = "ownedPages"
    /\ <<startYear, 2, 29>> \in DOMAIN dayMap
    /\ dayMap[<<startYear, 2, 29>>] > 0
    /\ <<startYear, 3, 1>> \in DOMAIN dayMap
    /\ dayMap[<<startYear, 3, 1>>] > 0
    /\ <<startYear, 2, 28>> \notin DOMAIN dayMap
    /\ <<startYear, 2, 20>> \in DOMAIN dayMap
    /\ dayMap[<<startYear, 2, 20>>] = 0
    /\ streaks.longestStreak = 2

\* C5: for a non-empty map the current streak is the number of consecutive
\* contributing days that end at the latest key, and 0 when the latest key has
\* a zero count.
Thm_C5 ==
    (pc = "ownedPages" /\ DOMAIN dayMap # {})
        => /\ streaks.currentStreak = TrailingRun(dayMap)
           /\ (dayMap[LastKey(DOMAIN dayMap)] = 0 => streaks.currentStreak = 0)

Wit_C5 ==
    /\ pc = "ownedPages"
    /\ DOMAIN dayMap = {<<startYear, 2, 28>>, <<startYear, 2, 29>>,
                        <<startYear, 3, 1>>}
    /\ dayMap[<<startYear, 2, 28>>] = 0
    /\ dayMap[<<startYear, 2, 29>>] > 0
    /\ dayMap[<<startYear, 3, 1>>] > 0
    /\ streaks.currentStreak = 2

\* C6: an empty map yields total 0, current streak 0 and longest streak 0, and
\* for any map the total is the sum of all its values.
Thm_C6 ==
    pc = "ownedPages"
        => /\ (DOMAIN dayMap = {} => streaks = ZeroStreaks)
           /\ streaks.total = TotalOf(dayMap)

Wit_C6 ==
    /\ pc = "ownedPages"
    /\ DOMAIN dayMap = {}
    /\ streaks = ZeroStreaks

\* C7: once a pagination loop has received a page shorter than per_page (an
\* empty page included), that loop issues no further page request.
Thm_C7 == [][\A p \in PagePhases : shortSeen[p] => reqs'[p] = reqs[p]]_vars

Wit_C7 ==
    /\ variant = "p0b"
    /\ shortSeen["ownedPages"]
    /\ reqs["ownedPages"] = 2
    /\ Len(repos) = per + 1
    /\ pc \notin PagePhases

\* the phases in which the list returned by a pagination loop is in use
AfterListing == {"langs", "contribRepos", "profile", "render"}

\* C8: whatever the endpoint returns, fetchTotalStars issues at most 50 page
\* requests and the other two loops at most 10, each loop has ended once its
\* last permitted page has been answered, and the returned list holds at most
\* limit repositories.
Thm_C8 ==
    /\ reqs["stars"] <= 50
    /\ reqs["contribPages"] <= 10
    /\ reqs["ownedPages"] <= 10
    /\ (reqs["stars"] = 50 /\ net = NoReq) => pc # "stars"
    /\ (reqs["contribPages"] = 10 /\ net = NoReq) => pc # "contribPages"
    /\ (reqs["ownedPages"] = 10 /\ net = NoReq) => pc # "ownedPages"
    /\ pc \in AfterListing => Len(repos) <= limit

Wit_C8 ==
    /\ reqs["stars"] = 50
    /\ totalStars = 50 * per
    /\ reqs["contribPages"] = 2
    /\ Len(repos) = limit
    /\ pc = "contribRepos"

RECURSIVE SumLang(_, _)
SumLang(objs, l) ==
    IF objs = <<>> THEN 0
    ELSE (IF l \in DOMAIN Head(objs) THEN Head(objs)[l] ELSE 0) + SumLang(Tail(objs), l)

\* the repositories computeLanguageTotals has to fetch
WithUrl(rs) == {j \in DOMAIN rs : rs[j].languages_url}

\* C9: the language totals hold, for each language, the sum of its bytes over
\* exactly the repositories whose languages fetch succeeded; a failed fetch adds
\* nothing and does not keep any later repository from being fetched.
Thm_C9 ==
    /\ DOMAIN langTotals = UNION {DOMAIN okLangs[i] : i \in DOMAIN okLangs}
    /\ \A l \in DOMAIN langTotals : langTotals[l] = SumLang(okLangs, l)
    /\ pc \notin {"streaks", "ownedPages", "langs"}
          => reqs["langs"] = Cardinality(WithUrl(repos))

Wit_C9 ==
    /\ pc \notin {"streaks", "ownedPages", "langs"}
    /\ Cardinality(WithUrl(repos)) = 2
    /\ reqs["langs"] = 2
    /\ Len(okLangs) = 1
    /\ last = [phase |-> "langs", kind |-> "ok"]
    /\ langTotals = [l \in {<<"R", "u", "s", "t">>} |-> MaxBytes]

\* a page or profile response that is a non-success status or a failed fetch
PageOrProfileFailure ==
    /\ net.phase \in PagePhases \cup {"profile"}
    /\ net' = NoReq
    /\ last'.kind \in {"httpfail", "neterr"}

\* C10 (as stated): a failing repository-list page request or profile request
\* (a non-success status or a failed fetch) never ends the run, which goes on
\* to the next phase without asking for the same page or profile again.
Claim_C10 ==
    [][PageOrProfileFailure => (exitCode' = -1 /\ pc' \notin {"exit", net.phase})]_vars

\* C11: when the token is absent the run ends at the token test with exit
\* code 1; no request is ever issued and no file is ever written.
Thm_C11 ==
    ~token
        => /\ reqs = ZeroReqs
           /\ net = NoReq
           /\ files = {}
           /\ \/ pc = "start" /\ exitCode = -1
              \/ pc = "exit" /\ exitCode = 1

Wit_C11 ==
    /\ ~token
    /\ pc = "exit"
    /\ exitCode = 1
    /\ files = {}

\* C12 (as stated): with the token present and every network call and file
\* write succeeding, a run that has ended has written stats.svg and ended
\* with exit code 0, whichever script ran.
Claim_C12 ==
    (token /\ pc = "exit") => (exitCode = 0 /\ "stats.svg" \in files)

\* a step in which an exception leaves main: a fetch or res.json() that
\* rejects outside the try / catch of the per-repository loops, a year or range
\* response without data that is not turned into the error shape, the template
\* of part_001, or a file write that fails
ExceptionReachesTop ==
    \/ /\ net.phase \in {"years", "range", "profile"} \cup PagePhases
       /\ net' = NoReq
       /\ last'.kind \in {"neterr", "badjson"}
    \/ /\ net.phase = "years"
       /\ net' = NoReq
       /\ last'.kind = "httpfail"
       /\ ~ChecksStatus(variant)
    \/ /\ net.phase = "range"
       /\ net' = NoReq
       /\ last'.kind \in {"errors", "httpfail"}
    \/ /\ pc = "render"
       /\ ~svg'.built
    \/ /\ pc \in {"write", "writeCb"}
       /\ pc' # pc
       /\ files' = files

\* C13: a step in which an exception reaches the top level, a failed write
\* included, ends the run with exit code 1 and writes nothing; a run that has
\* ended takes no further step, so the code never becomes 0 and the write is
\* not tried again.
Thm_C13 ==
    [][/\ pc # "exit"
       /\ ExceptionReachesTop
             => (pc' = "exit" /\ exitCode' = 1 /\ files' = files)]_vars

Wit_C13 ==
    /\ variant = "gs1"
    /\ svg.built
    /\ files = {}
    /\ pc = "exit"
    /\ exitCode = 1

\* position of a phase in the order year fetches, repository page fetches,
\* per-repository fetches, profile fetch
PhaseRank(p) ==
    IF p \in {"years", "range"} THEN 1
    ELSE IF p \in PagePhases THEN 2
    ELSE IF p \in {"langs", "contribRepos"} THEN 3
    ELSE 4

\* C14: a request is issued only while no response is outstanding, one at a
\* time, and it becomes the one request in flight; handling a response issues
\* nothing; and no request of a phase is issued once a request of a later
\* phase has been issued (years, then pages, then per-repository fetches).
Thm_C14 ==
    [][/\ reqs' # reqs
          => /\ net = NoReq
             /\ net' # NoReq
             /\ \E p \in Phases :
                   /\ net' = [phase |-> p]
                   /\ reqs' = [reqs EXCEPT ![p] = @ + 1]
                   /\ \A q \in Phases : PhaseRank(q) > PhaseRank(p) => reqs[q] = 0
       /\ (net # NoReq /\ net' # net) => (net' = NoReq /\ reqs' = reqs)]_vars

Wit_C14 ==
    /\ variant = "p0b"
    /\ reqs["years"] = NumYears
    /\ reqs["ownedPages"] = 1
    /\ reqs["langs"] = 1
    /\ net = [phase |-> "contribRepos"]

\* the from / to windows the contribution request in flight may carry
WindowsInFlight ==
    IF net.phase = "range" THEN RangeWindows
    ELSE IF net.phase = "years" THEN {YearWindow(y)}
    ELSE {}

\* number of calendar days a window touches
WindowLength(w) == ParseDate(w.to) - ParseDate(w.from) + 1

\* C15 (as stated): contribution data is requested year by year: the k-th
\* request is the one for year 2008 + k - 1, a run that gets past the
\* contribution phase has issued exactly one request for each year up to the
\* current one, and every window lies within one calendar year.
Claim_C15 ==
    /\ \A w \in WindowsInFlight :
          /\ w.from[1] = w.to[1]
          /\ WindowLength(w) <= DaysInYear(w.from[1])
    /\ net.phase = "years" => reqs["years"] = y - startYear + 1
    /\ reqs["range"] = 0
    /\ pc \notin {"start", "years", "range", "exit"} => reqs["years"] = NumYears

\* position i of t starts one of the three entities
EntityAt(t, i) ==
    \E e \in {Amp, Lt, Gt} :
        /\ i + Len(e) - 1 <= Len(t)
        /\ SubSeq(t, i, i + Len(e) - 1) = e

\* t holds no '<', no '>' and no '&' other than the one that starts an entity
NoRawMarkup(t) ==
    \A i \in DOMAIN t :
        /\ t[i] \notin {"<", ">"}
        /\ t[i] = "&" => EntityAt(t, i)

\* C16 (as stated): every text value the rendering code interpolates (login,
\* display name, language name) stands in the document with each '&', '<' and
\* '>' replaced by its entity, whichever script ran.
Claim_C16 == svg.done => \A t \in svg.texts : NoRawMarkup(t)

\* the shares of all the languages of lt, not only the rendered ones, as the
\* code computes a share from the bytes and the sum: their numerators over the
\* common denominator, and their one-decimal roundings in tenths of a percent
RECURSIVE ShareNums(_, _, _)
ShareNums(lt, keys, sum) ==
    IF keys = {} THEN 0
    ELSE LET k == CHOOSE x \in keys : TRUE
         IN Pct(lt[k], sum).num + ShareNums(lt, keys \ {k}, sum)

RECURSIVE ShareTenths(_, _, _)
ShareTenths(lt, keys, sum) ==
    IF keys = {} THEN 0
    ELSE LET k == CHOOSE x \in keys : TRUE
         IN toFixed1(Pct(lt[k], sum)) + ShareTenths(lt, keys \ {k}, sum)

Abs(n) == IF n < 0 THEN 0 - n ELSE n

\* the shares add up to exactly 100, and their one-decimal roundings to 100
\* within half a tenth per language
SharesSumTo100(lt, sum) ==
    /\ ShareNums(lt, DOMAIN lt, sum) = 100 * Pct(0, sum).den
    /\ 2 * Abs(ShareTenths(lt, DOMAIN lt, sum) - 1000) <= Cardinality(DOMAIN lt)

\* C17 (as stated): for any non-empty language-bytes mapping the shares of
\* all the languages sum to 100 within rounding.
Claim_C17 ==
    (svg.done /\ HasLangBar(variant) /\ DOMAIN langTotals # {})
        => SharesSumTo100(langTotals, svg.langSum)

\* C17 (amended): for any language-bytes mapping whose bytes add up to more
\* than zero the shares of all the languages sum to 100 within rounding; when
\* the bytes add up to zero every share is 0.
Thm_C17 ==
    (svg.done /\ HasLangBar(variant))
        => IF svg.langSum > 0
           THEN SharesSumTo100(langTotals, svg.langSum)
           ELSE \A l \in DOMAIN langTotals : Pct(langTotals[l], svg.langSum).num = 0

Wit_C17 ==
    /\ svg.done
    /\ HasLangBar(variant)
    /\ Cardinality(DOMAIN langTotals) = 7
    /\ \A l \in DOMAIN langTotals : langTotals[l] = 1
    /\ Len(svg.top) = 6
    /\ svg.langSum = 7
    /\ ShareTenths(langTotals, DOMAIN langTotals, svg.langSum) = 1001

\* the share of rendered language i is above zero and its segment width
\* bytes / langSum * bar width is below one half, so that it rounds to zero
RoundsToZero(v, top, sum, i) ==
    /\ top[i].bytes > 0
    /\ 2 * top[i].bytes * langBarW(v) < sum

\* C18 (as stated): in every script that draws the stacked language bar, a
\* rendered language whose share is above zero but rounds to a zero-width
\* segment is drawn 1 unit wide.
Claim_C18 ==
    (svg.done /\ HasLangBar(variant))
        => \A i \in DOMAIN svg.top :
              RoundsToZero(variant, svg.top, svg.langSum, i) => svg.widths[i] = 1

\* C19: whatever the aggregates, the ring percentage lies between 0 and 100,
\* both numbers of the ring's stroke-dasharray are non-negative, and so is
\* the width of every segment of the stacked language bar.
Thm_C19 ==
    svg.done
        => /\ \A i \in DOMAIN svg.ring :
                 /\ svg.ring[i].percent \in 0..100
                 /\ svg.ring[i].dash >= 0
                 /\ svg.ring[i].rest >= 0
           /\ HasRing(variant) => Len(svg.ring) = 1
           /\ \A i \in DOMAIN svg.widths : svg.widths[i] >= 0

Wit_C19 ==
    /\ svg.done
    /\ variant = "gs2"
    /\ totals.total > goal
    /\ svg.ring[1].percent = 100
    /\ svg.ring[1].dash = svg.ring[1].rest

\* the count a map holds for a date, 0 for a date it does not hold
CountAt(dm, k) == IF k \in DOMAIN dm THEN dm[k] ELSE 0

\* C20: merging day entries into the map the year loop has built adds the
\* count of each entry to the count its date already has (a date that occurs
\* twice gets both counts), and merging two entries in either order gives the
\* same map; as any reordering of years and of days is a chain of such swaps,
\* the final map does not depend on the order of merging.
Thm_C20 ==
    \A e1 \in DayEntries : \A e2 \in DayEntries :
        LET a == MergeDays(dayMap, <<e1, e2>>)
            b == MergeDays(dayMap, <<e2, e1>>)
        IN /\ a = b
           /\ DOMAIN a = DOMAIN dayMap \cup {e1.date, e2.date}
           /\ \A k \in DOMAIN a :
                 a[k] = CountAt(dayMap, k)
                          + (IF e1.date = k THEN e1.count ELSE 0)
                          + (IF e2.date = k THEN e2.count ELSE 0)

Wit_C20 ==
    /\ variant = "p0b"
    /\ Len(okYears) = 2
    /\ DOMAIN dayMap = {<<startYear, 12, 31>>}
    /\ dayMap[<<startYear, 12, 31>>] = 2 * MaxCount

\* accX after the segments 1..n of the langRects loop: accX += w
RECURSIVE accX(_, _)
accX(widths, n) == IF n = 0 THEN 0 ELSE accX(widths, n - 1) + widths[n]

\* C21 (as stated): in every script that draws the stacked language bar, for
\* every set of up to six rendered languages the segment widths add up to at
\* most the bar width, so that no segment ends past the right edge of the bar.
Claim_C21 ==
    (svg.done /\ HasLangBar(variant))
        => \A i \in DOMAIN svg.widths : accX(svg.widths, i) <= langBarW(variant)

\* t holds the character that closes a double-quoted attribute value
HasRawQuote(t) == \E i \in DOMAIN t : t[i] = "\""

\* C22 (as stated): the display name or login, as the template places it in
\* the double-quoted aria-label attribute of the root svg element, holds no
\* raw double-quote character.
Claim_C22 == svg.done => \A t \in svg.aria : ~HasRawQuote(t)

====
